---- MODULE Spec2Model ----
(***************************************************************************)
(* A model of the two analysis scripts of the repository:                  *)
(*   scripts/analyze-trace.py             (CPU profile trace analyzer)     *)
(*   scripts/analyze-webgpu-inspector.py  (WebGPU Inspector recordings)    *)
(*                                                                         *)
(* Python dicts are modelled as insertion-ordered sequences of <<key,      *)
(* value>> pairs, Python lists as sequences, Python sets as sets.  Each    *)
(* routine has its own specification (SpecStack, SpecAnalyze, ...), all    *)
(* over the one set of variables; a specification leaves the variables of  *)
(* the other routines at their idle value.                                 *)
(***************************************************************************)
EXTENDS Integers, Sequences, FiniteSets, TLC

VARIABLES
    pc,             \* position of the running routine
    nodes,          \* node table: dict node id -> [functionName, parent]
    node_id,        \* get_full_stack: the starting node id
    stack,          \* get_full_stack: list of <<id, functionName>>, leaf first
    current,        \* get_full_stack: the node the walk is at
    visited,        \* get_full_stack: set of node ids already walked
    samples,        \* analyze_samples: list of sampled node ids
    time_deltas,    \* analyze_samples: list of time deltas (microseconds)
    i,              \* analyze_samples: number of samples consumed so far
    self_samples,   \* dict functionName -> samples with it as the leaf
    self_time,      \* dict functionName -> time with it as the leaf
    total_samples,  \* dict functionName -> samples with it on the stack
    total_time,     \* dict functionName -> time with it on the stack
    call_tree,      \* dict parent name -> dict child name -> edge count
    content,        \* parse_webgpu_recording: the recording text, as its calls
    draws,          \* results['draws']
    dispatches,     \* results['dispatches']
    buffers,        \* results['buffers']
    pipelines,      \* results['pipelines']
    frame_count,    \* results['frame_count']
    summary,        \* results['summary']
    traces,         \* main: args.traces, each file as what processing it does
    trace_path,     \* main: position in args.traces of the file in the loop
    loaded,         \* main: positions of the files load_trace was called on
    stdout,         \* what is printed on standard output, in order
    stderr,         \* main: error lines printed, in order
    total_time_us,  \* reporters: the time denominator of the percentages
    printed,        \* print_call_tree: names print_subtree has taken up
    rows,           \* print_call_tree: rows printed, each <<name, indent>>
    frames,         \* print_call_tree: the active calls of print_subtree
    root,           \* print_call_tree: position in sorted_funcs[:30]
    categories,     \* print_bottleneck_analysis: dict category -> items
    item            \* print_bottleneck_analysis: total_time items consumed

stackVars == <<node_id, stack, current, visited>>
inputVars == <<samples, time_deltas>>
aggVars == <<self_samples, self_time, total_samples, total_time, call_tree>>

recVars == <<content, draws, dispatches, buffers, pipelines, frame_count, summary>>

mainVars == <<traces, trace_path, loaded, stdout, stderr>>

reportVars == <<total_time_us, printed, rows, frames, root, categories, item>>

vars == <<pc, nodes, stackVars, inputVars, i, aggVars, recVars, mainVars, reportVars>>

\* The value of the variables a specification does not use.
IdleStack == node_id = 0 /\ stack = <<>> /\ current = 0 /\ visited = {}
IdleInput == samples = <<>> /\ time_deltas = <<>> /\ i = 0
IdleAgg ==
    /\ self_samples = <<>> /\ self_time = <<>>
    /\ total_samples = <<>> /\ total_time = <<>> /\ call_tree = <<>>
IdleRec ==
    /\ content = <<>> /\ draws = <<>> /\ dispatches = <<>> /\ buffers = <<>>
    /\ pipelines = <<>> /\ frame_count = 0 /\ summary = <<>>
IdleMain ==
    /\ traces = <<>> /\ trace_path = 0 /\ loaded = <<>>
    /\ stdout = <<>> /\ stderr = <<>>
IdleReport ==
    /\ total_time_us = 0 /\ printed = {} /\ rows = <<>> /\ frames = <<>>
    /\ root = 0 /\ categories = <<>> /\ item = 0

(***************************************************************************)
(* Bounds of the model.                                                    *)
(***************************************************************************)
MaxId == 2          \* node ids of get_full_stack's tables are 0..MaxId
MaxSamples == 2     \* longest sample list and time-delta list
MaxCalls == 3       \* most calls and frame markers in a recording text
MaxTraces == 3      \* most trace files on the command line
NumFuncs == 10      \* function names of the call tree are 1..NumFuncs
MaxFuncs == 2       \* most functions in the total-time map that is classified

(***************************************************************************)
(* Python values.                                                          *)
(***************************************************************************)
\* None is modelled as -1, which is no node id (ids are 0, 1, 2, ...).
None == -1

\* Python truthiness of a node id: None and 0 are false.
Truthy(x) == x /= None /\ x /= 0

Names == {"a", "b"}

\* dict.get(key, default) on an insertion-ordered dict.
DictKeys(d) == {d[n][1] : n \in 1..Len(d)}

DictGet(d, k, default) ==
    IF k \in DictKeys(d)
    THEN d[CHOOSE n \in 1..Len(d) : d[n][1] = k][2]
    ELSE default

\* d[k] = v : an existing key keeps its place, a new key goes last.
DictSet(d, k, v) ==
    IF k \in DictKeys(d)
    THEN [n \in 1..Len(d) |-> IF d[n][1] = k THEN <<k, v>> ELSE d[n]]
    ELSE Append(d, <<k, v>>)

(***************************************************************************)
(* get_full_stack, statement by statement.                                 *)
(***************************************************************************)
StackIds == 0..MaxId

\* Every node table over the ids 0..MaxId: a node may be absent, its parent
\* may be null, itself, another node or an id that is not in the table.
NodeTables ==
    UNION {[D -> [functionName : Names, parent : StackIds \cup {None}]]
             : D \in SUBSET StackIds}

HasNode(tbl, id) == id \in DOMAIN tbl

\* The loop condition without its cycle guard: while current
LoopCondNoVisited(cur, vis) == Truthy(cur)

\* while current and current not in visited
LoopCond(cur, vis) == Truthy(cur) /\ cur \notin vis

InitStack ==
    /\ pc = "loop"
    /\ nodes \in NodeTables
    /\ node_id \in StackIds \cup {None}
    /\ stack = <<>>
    /\ current = node_id
    /\ visited = {}
    /\ IdleInput /\ IdleAgg /\ IdleRec /\ IdleMain /\ IdleReport

\* One pass of the loop body with the node found in the table.
StackStep ==
    /\ pc = "loop"
    /\ LoopCond(current, visited)
    /\ HasNode(nodes, current)
    /\ visited' = visited \cup {current}
    /\ stack' = Append(stack, <<current, nodes[current].functionName>>)
    /\ current' = nodes[current].parent
    /\ UNCHANGED <<pc, nodes, node_id, inputVars, i, aggVars, recVars, mainVars, reportVars>>

\* One pass of the loop body with the node missing: break.
StackBreak ==
    /\ pc = "loop"
    /\ LoopCond(current, visited)
    /\ ~HasNode(nodes, current)
    /\ visited' = visited \cup {current}
    /\ pc' = "done"
    /\ UNCHANGED <<nodes, node_id, stack, current, inputVars, i, aggVars, recVars, mainVars, reportVars>>

\* The loop condition is false: return stack.
StackReturn ==
    /\ pc = "loop"
    /\ ~LoopCond(current, visited)
    /\ pc' = "done"
    /\ UNCHANGED <<nodes, stackVars, inputVars, i, aggVars, recVars, mainVars, reportVars>>

NextStack == StackStep \/ StackBreak \/ StackReturn

SpecStack == InitStack /\ [][NextStack]_vars

\* A sequential program always runs its next statement.
SpecStackFair == SpecStack /\ WF_vars(NextStack)

StackNodeIds == {stack[n][1] : n \in 1..Len(stack)}

\* C1: get_full_stack terminates on every node table (cyclic, dangling or
\* null parent links included) and every starting id, and at every moment the
\* stack holds no node id twice, so it is never longer than the number of
\* distinct node ids of the table.
C1_StackTerminatesNoRepeat ==
    /\ [](/\ Cardinality(StackNodeIds) = Len(stack)
          /\ Len(stack) <= Cardinality(DOMAIN nodes))
    /\ <>(pc = "done")

\* C1 witness: the walk of a cyclic table has returned with every node of
\* the cycle on the stack once.
C1_Witness ==
    /\ pc = "done"
    /\ Len(stack) = 2
    /\ current = node_id
    /\ current \in visited

(***************************************************************************)
(* analyze_samples, one action per sample of the list.                     *)
(***************************************************************************)
SeqsUpTo(S, n) == UNION {[1..k -> S] : k \in 0..n}

RECURSIVE Walk(_, _, _, _)
\* The walk with a missing node pushed under the name "(unknown)" instead of
\* ending the walk.
WalkUnknown(tbl, cur, vis, stk) ==
    IF ~LoopCond(cur, vis) THEN stk
    ELSE IF HasNode(tbl, cur)
         THEN Walk(tbl, tbl[cur].parent, vis \cup {cur},
                   Append(stk, <<cur, tbl[cur].functionName>>))
         ELSE Append(stk, <<cur, "(unknown)">>)

\* get_full_stack as a function of its arguments: the loop from the state
\* (current, visited, stack).
Walk(tbl, cur, vis, stk) ==
    IF ~LoopCond(cur, vis) THEN stk
    ELSE IF HasNode(tbl, cur)
         THEN Walk(tbl, tbl[cur].parent, vis \cup {cur},
                   Append(stk, <<cur, tbl[cur].functionName>>))
         ELSE stk

GetFullStack(tbl, id) == Walk(tbl, id, {}, <<>>)

\* The node tables analyze_samples is run on: nodes 1 and 2, each with a
\* name and a parent that is null, a node or the id 3 of no node.
AnalyzeIds == {1, 2}
MissingId == 3
AnalyzeTables ==
    [AnalyzeIds -> [functionName : Names,
                    parent : AnalyzeIds \cup {None, MissingId}]]

\* A sample is a node id, 0, null or the id of no node.
SampleIds == AnalyzeIds \cup {0, None, MissingId}

DeltaValues == {-1, 1, 2}

\* delta = time_deltas[i] if i < len(time_deltas) else 0   (i counts from 0)
SampleDelta(deltas, n) == IF n < Len(deltas) THEN deltas[n + 1] ELSE 0

\* defaultdict(int): d[k] += n
DictAdd(d, k, n) == DictSet(d, k, DictGet(d, k, 0) + n)

\* call_tree[parent][child] += 1
TreeAdd(ct, parent, child) ==
    DictSet(ct, parent, DictAdd(DictGet(ct, parent, <<>>), child, 1))

\* The last (outermost) entry taken for the leaf: stack[-1]
LeafOfLast(stk) == stk[Len(stk)]

\* leaf_id, leaf_name = stack[0]
LeafOf(stk) == stk[1]

\* seen started with the leaf's name in it: seen = {leaf_name}
SeenInitLeaf(stk) == {stk[1][2]}

\* seen = set()
SeenInit(stk) == {}

\* seen never filled
SeenAddNothing(seen, name) == seen

\* seen.add(name)
SeenAdd(seen, name) == seen \cup {name}

\* The body of "for j, (nid, name) in enumerate(stack)" for frame j (from 1).
FrameBody(acc, stk, j, delta) ==
    LET name == stk[j][2]
        counted ==
            IF name \notin acc.seen
            THEN [acc EXCEPT !.seen = SeenAdd(@, name),
                             !.total_samples = DictAdd(@, name, 1),
                             !.total_time = DictAdd(@, name, delta)]
            ELSE acc
    IN  IF j < Len(stk)
        THEN [counted EXCEPT !.call_tree = TreeAdd(@, stk[j + 1][2], name)]
        ELSE counted

RECURSIVE FrameLoop(_, _, _, _)
FrameLoop(acc, stk, j, delta) ==
    IF j > Len(stk) THEN acc
    ELSE FrameLoop(FrameBody(acc, stk, j, delta), stk, j + 1, delta)

\* The aggregates after one sample with a non-empty stack.
SampleBody(agg, stk, delta) ==
    LET leaf_name == LeafOf(stk)[2]
        acc == FrameLoop([seen |-> SeenInit(stk),
                          total_samples |-> agg.total_samples,
                          total_time |-> agg.total_time,
                          call_tree |-> agg.call_tree], stk, 1, delta)
    IN  [self_samples |-> DictAdd(agg.self_samples, leaf_name, 1),
         self_time |-> DictAdd(agg.self_time, leaf_name, delta),
         total_samples |-> acc.total_samples,
         total_time |-> acc.total_time,
         call_tree |-> acc.call_tree]

Aggregates ==
    [self_samples |-> self_samples, self_time |-> self_time,
     total_samples |-> total_samples, total_time |-> total_time,
     call_tree |-> call_tree]

EmptyAggregates ==
    [self_samples |-> <<>>, self_time |-> <<>>,
     total_samples |-> <<>>, total_time |-> <<>>, call_tree |-> <<>>]

InitAnalyze ==
    /\ pc = "samples"
    /\ nodes \in AnalyzeTables
    /\ samples \in SeqsUpTo(SampleIds, MaxSamples)
    /\ time_deltas \in SeqsUpTo(DeltaValues, MaxSamples)
    /\ i = 0
    /\ IdleAgg
    /\ IdleStack /\ IdleRec /\ IdleMain /\ IdleReport

\* A sample whose stack is not empty.
ProcessSample ==
    /\ pc = "samples"
    /\ i < Len(samples)
    /\ LET stk == GetFullStack(nodes, samples[i + 1])
           new == SampleBody(Aggregates, stk, SampleDelta(time_deltas, i))
       IN  /\ stk /= <<>>
           /\ self_samples' = new.self_samples
           /\ self_time' = new.self_time
           /\ total_samples' = new.total_samples
           /\ total_time' = new.total_time
           /\ call_tree' = new.call_tree
    /\ i' = i + 1
    /\ UNCHANGED <<pc, nodes, stackVars, inputVars, recVars, mainVars, reportVars>>

\* if not stack: continue
SkipSample ==
    /\ pc = "samples"
    /\ i < Len(samples)
    /\ GetFullStack(nodes, samples[i + 1]) = <<>>
    /\ i' = i + 1
    /\ UNCHANGED <<pc, nodes, stackVars, inputVars, aggVars, recVars, mainVars, reportVars>>

\* The sample list is exhausted: return the five dicts.
ReturnAnalysis ==
    /\ pc = "samples"
    /\ i = Len(samples)
    /\ pc' = "analyzed"
    /\ UNCHANGED <<nodes, stackVars, inputVars, i, aggVars, recVars, mainVars, reportVars>>

NextAnalyze == ProcessSample \/ SkipSample \/ ReturnAnalysis

SpecAnalyze == InitAnalyze /\ [][NextAnalyze]_vars

AllNames == Names \cup {"(unknown)"}

StackNames(stk) == {stk[n][2] : n \in 1..Len(stk)}

RECURSIVE SumOver(_, _)
\* The sum of f over the finite set S.
SumOver(f, S) ==
    IF S = {} THEN 0
    ELSE LET x == CHOOSE y \in S : TRUE IN f[x] + SumOver(f, S \ {x})

\* The samples consumed so far (numbered from 1) and the delta of each.
Consumed == 1..i
DeltaOf == [n \in Consumed |-> IF n <= Len(time_deltas) THEN time_deltas[n] ELSE 0]
StackOf == [n \in Consumed |-> GetFullStack(nodes, samples[n])]

\* C2 as stated: whatever the time deltas, total_time[name] >= self_time[name]
\* for every function name after every prefix of the sample list.
C2_TotalAtLeastSelfAnyDeltas ==
    \A name \in AllNames :
        DictGet(total_time, name, 0) >= DictGet(self_time, name, 0)

\* C2 amended: when no time delta is negative, total_time[name] >=
\* self_time[name] for every function name after every prefix of the sample
\* list.
C2_TotalAtLeastSelf ==
    (\A n \in 1..Len(time_deltas) : time_deltas[n] >= 0)
        => \A name \in AllNames :
               DictGet(total_time, name, 0) >= DictGet(self_time, name, 0)

\* C2 witness: with non-negative deltas, a function has been both a leaf and
\* an outer frame, so its total time exceeds its positive self time.
C2_Witness ==
    /\ pc = "analyzed"
    /\ \A n \in 1..Len(time_deltas) : time_deltas[n] >= 0
    /\ \E name \in Names :
           /\ DictGet(self_time, name, 0) > 0
           /\ DictGet(total_time, name, 0) > DictGet(self_time, name, 0)

\* C3: total_samples[name] is the number of consumed samples whose stack
\* contains name, and total_time[name] the sum of their deltas: a sample
\* counts once for a name however many of its frames carry the name.
C3_TotalOncePerSample ==
    \A name \in AllNames :
        LET on == {n \in Consumed : name \in StackNames(StackOf[n])}
        IN  /\ DictGet(total_samples, name, 0) = Cardinality(on)
            /\ DictGet(total_time, name, 0) = SumOver(DeltaOf, on)
            /\ (name \in DictKeys(total_samples)) = (on /= {})

\* C3 witness: a recursive stack (two frames of one name) has been counted.
C3_Witness ==
    /\ i = 1
    /\ Len(StackOf[1]) = 2
    /\ Cardinality(StackNames(StackOf[1])) = 1
    /\ DeltaOf[1] = 2
    /\ total_samples = <<<<StackOf[1][1][2], 1>>>>

\* C4: self_time[name] is the sum of the deltas of the consumed samples whose
\* stack is non-empty with leaf (first entry) named name, a sample past the
\* end of time_deltas counting 0; self_samples[name] is their number.
C4_SelfIsLeafSum ==
    \A name \in AllNames :
        LET leaf == {n \in Consumed :
                        /\ StackOf[n] /= <<>>
                        /\ nodes[samples[n]].functionName = name}
        IN  /\ DictGet(self_time, name, 0) = SumOver(DeltaOf, leaf)
            /\ DictGet(self_samples, name, 0) = Cardinality(leaf)

\* C4 witness: two samples on one leaf node with deltas 1 and 2 give that
\* leaf the self time 3.
C4_Witness ==
    /\ pc = "analyzed"
    /\ Len(samples) = 2
    /\ samples[1] = samples[2]
    /\ time_deltas = <<1, 2>>
    /\ Len(StackOf[1]) = 2
    /\ nodes[1].functionName /= nodes[2].functionName
    /\ self_time = <<<<nodes[samples[1]].functionName, 3>>>>
    /\ self_samples = <<<<nodes[samples[1]].functionName, 2>>>>

\* A sample id that is empty/null or names no node of the table.
IsEmptySample(id) == id = None \/ id = 0 \/ id \notin DOMAIN nodes

RECURSIVE AnalyzeKept(_)
\* The aggregates of the first n samples with the empty ones left out of the
\* list, every other sample keeping the delta of its own index.
AnalyzeKept(n) ==
    IF n = 0 THEN EmptyAggregates
    ELSE IF IsEmptySample(samples[n]) THEN AnalyzeKept(n - 1)
    ELSE SampleBody(AnalyzeKept(n - 1),
                    GetFullStack(nodes, samples[n]), DeltaOf[n])

\* C10: a sample whose node id is empty/null or not in the node table has an
\* empty stack and changes none of the five aggregates: they are what the
\* list without these samples gives, the other samples keeping their deltas.
C10_EmptyStackSampleIgnored ==
    /\ \A n \in Consumed : IsEmptySample(samples[n]) <=> StackOf[n] = <<>>
    /\ Aggregates = AnalyzeKept(i)

\* C10 witness: a sample of no node, then a sample of a node: the second one
\* is charged the second delta and the first one nothing.
C10_Witness ==
    /\ pc = "analyzed"
    /\ samples = <<MissingId, 1>>
    /\ time_deltas = <<1, 2>>
    /\ self_time = <<<<nodes[1].functionName, 2>>>>
    /\ self_samples = <<<<nodes[1].functionName, 1>>>>

(***************************************************************************)
(* parse_webgpu_recording and compute_summary.  The recording text is      *)
(* modelled as the sequence, in text order, of the substrings the regular  *)
(* expressions can match: frame markers D_F<n>_<m> and calls.  A           *)
(* createBuffer call carries the order of its fields: "size_label" is the  *)
(* text the first buffer pattern matches, "label_size" the text the second *)
(* one matches, "size_only" (no label) the text neither matches.           *)
(***************************************************************************)
traceVars == <<nodes, stackVars, inputVars, i, aggVars>>

FrameIndexes == {0, 2}
BufferSizes == {16, 32}
BufferLabels == {"x", "y"}

FrameMarkers == [kind : {"frame"}, index : FrameIndexes]
DrawCalls ==
    [kind : {"draw"}, vertex_count : {10}, instance_count : {2, 5},
     first_vertex : {0}, first_instance : {0}]
DrawIndirectCalls == [kind : {"drawIndirect"}, offset : {0}]
DispatchCalls == [kind : {"dispatchWorkgroups"}, x : {1, 2}, y : {1}, z : {1}]
CreateBufferCalls ==
    [kind : {"createBuffer"}, order : {"size_label", "label_size"},
     size : BufferSizes, label : BufferLabels]
        \cup [kind : {"createBuffer"}, order : {"size_only"},
              size : {16}, label : {""}]
CreatePipelineCalls ==
    [kind : {"createPipeline"}, type : {"Compute"}, label : {"p"}]

Calls ==
    FrameMarkers \cup DrawCalls \cup DrawIndirectCalls \cup DispatchCalls
        \cup CreateBufferCalls \cup CreatePipelineCalls

\* re.finditer / re.findall, the matches of one pattern in text order, is
\* SelectSeq on the calls of the text.
SeqMax(q) == CHOOSE m \in {q[n] : n \in 1..Len(q)} : \A n \in 1..Len(q) : q[n] <= m

RECURSIVE SeqSum(_)
SeqSum(q) == IF q = <<>> THEN 0 ELSE Head(q) + SeqSum(Tail(q))

InitRecording ==
    /\ pc = "frames"
    /\ content \in SeqsUpTo(Calls, MaxCalls)
    /\ draws = <<>> /\ dispatches = <<>> /\ buffers = <<>> /\ pipelines = <<>>
    /\ frame_count = 0
    /\ summary = <<>>
    /\ nodes = <<>>
    /\ IdleStack /\ IdleInput /\ IdleAgg /\ IdleMain /\ IdleReport

\* frame_matches = re.findall(r'D_F(\d+)_\d+', content)
ScanFrames ==
    /\ pc = "frames"
    /\ LET IsFrame(c) == c.kind = "frame"
           found == SelectSeq(content, IsFrame)
           frame_matches == [n \in 1..Len(found) |-> found[n].index]
       IN  frame_count' = IF frame_matches /= <<>>
                          THEN SeqMax(frame_matches) + 1
                          ELSE frame_count
    /\ pc' = "draws"
    /\ UNCHANGED <<traceVars, mainVars, reportVars, content, draws, dispatches, buffers, pipelines, summary>>

\* the .draw(v,i,fv,fi) pattern
ScanDraws ==
    /\ pc = "draws"
    /\ LET IsDraw(c) == c.kind = "draw"
           found == SelectSeq(content, IsDraw)
       IN  draws' = draws \o
               [n \in 1..Len(found) |->
                   [type |-> "direct",
                    vertex_count |-> found[n].vertex_count,
                    instance_count |-> found[n].instance_count,
                    first_vertex |-> found[n].first_vertex,
                    first_instance |-> found[n].first_instance]]
    /\ pc' = "drawIndirect"
    /\ UNCHANGED <<traceVars, mainVars, reportVars, content, dispatches, buffers, pipelines, frame_count, summary>>

\* the .drawIndirect(buffer, offset) pattern
ScanDrawIndirect ==
    /\ pc = "drawIndirect"
    /\ LET IsIndirect(c) == c.kind = "drawIndirect"
           found == SelectSeq(content, IsIndirect)
       IN  draws' = draws \o
               [n \in 1..Len(found) |->
                   [type |-> "indirect", offset |-> found[n].offset]]
    /\ pc' = "dispatches"
    /\ UNCHANGED <<traceVars, mainVars, reportVars, content, dispatches, buffers, pipelines, frame_count, summary>>

\* the .dispatchWorkgroups(x,y,z) pattern
ScanDispatches ==
    /\ pc = "dispatches"
    /\ LET IsDispatch(c) == c.kind = "dispatchWorkgroups"
           found == SelectSeq(content, IsDispatch)
       IN  dispatches' = dispatches \o
               [n \in 1..Len(found) |->
                   [x |-> found[n].x, y |-> found[n].y, z |-> found[n].z,
                    total_workgroups |-> found[n].x * found[n].y * found[n].z]]
    /\ pc' = "buffers"
    /\ UNCHANGED <<traceVars, mainVars, reportVars, content, draws, buffers, pipelines, frame_count, summary>>

\* buffer_pattern: "size" before "label"
ScanBuffers ==
    /\ pc = "buffers"
    /\ LET IsSizeLabel(c) == c.kind = "createBuffer" /\ c.order = "size_label"
           found == SelectSeq(content, IsSizeLabel)
       IN  buffers' = buffers \o
               [n \in 1..Len(found) |->
                   [size |-> found[n].size, label |-> found[n].label]]
    /\ pc' = "buffers2"
    /\ UNCHANGED <<traceVars, mainVars, reportVars, content, draws, dispatches, pipelines, frame_count, summary>>

\* buffer_pattern2: "label" before "size"
ScanBuffers2 ==
    /\ pc = "buffers2"
    /\ LET IsLabelSize(c) == c.kind = "createBuffer" /\ c.order = "label_size"
           found == SelectSeq(content, IsLabelSize)
       IN  buffers' = buffers \o
               [n \in 1..Len(found) |->
                   [size |-> found[n].size, label |-> found[n].label]]
    /\ pc' = "pipelines"
    /\ UNCHANGED <<traceVars, mainVars, reportVars, content, draws, dispatches, pipelines, frame_count, summary>>

\* the create(Compute|Render)Pipeline pattern; type is lower-cased
Lower(t) == IF t = "Compute" THEN "compute" ELSE "render"

ScanPipelines ==
    /\ pc = "pipelines"
    /\ LET IsPipeline(c) == c.kind = "createPipeline"
           found == SelectSeq(content, IsPipeline)
       IN  pipelines' = pipelines \o
               [n \in 1..Len(found) |->
                   [type |-> Lower(found[n].type), label |-> found[n].label]]
    /\ pc' = "summary"
    /\ UNCHANGED <<traceVars, mainVars, reportVars, content, draws, dispatches, buffers, frame_count, summary>>

\* The per-frame rates written whatever the frame count.
HasFramesAlways(fc) == TRUE

\* if results['frame_count'] > 0
HasFrames(fc) == fc > 0

\* a / b of two ints, kept as the fraction
Ratio(a, b) == [num |-> a, den |-> b]

\* The "Draw call analysis" block of compute_summary.
DrawSummary(sm) ==
    IF draws = <<>> THEN sm
    ELSE LET IsDirect(d) == d.type = "direct"
             IsIndirect(d) == d.type = "indirect"
             direct_draws == SelectSeq(draws, IsDirect)
             indirect_draws == SelectSeq(draws, IsIndirect)
             total_vertices ==
                 SeqSum([n \in 1..Len(direct_draws) |->
                     direct_draws[n].vertex_count * direct_draws[n].instance_count])
             total_instances ==
                 SeqSum([n \in 1..Len(direct_draws) |-> direct_draws[n].instance_count])
             s1 == sm \o <<<<"draw_calls", Len(draws)>>,
                           <<"direct_draws", Len(direct_draws)>>,
                           <<"indirect_draws", Len(indirect_draws)>>>>
             s2 == s1 \o <<<<"total_vertices_drawn", total_vertices>>,
                           <<"total_instances", total_instances>>>>
             s3 == s2 \o <<<<"draws_per_frame", Ratio(Len(direct_draws), frame_count)>>,
                           <<"instances_per_frame", Ratio(total_instances, frame_count)>>>>
         IN  IF direct_draws = <<>> THEN s1
             ELSE IF HasFrames(frame_count) THEN s3 ELSE s2

RECURSIVE DispatchTypes(_)
\* dispatch_types[f"{x}x{y}x{z}"] += 1 over the first n dispatches; the key
\* is kept as the triple it prints.
DispatchTypes(n) ==
    IF n = 0 THEN <<>>
    ELSE DictAdd(DispatchTypes(n - 1),
                 <<dispatches[n].x, dispatches[n].y, dispatches[n].z>>, 1)

\* The "Dispatch analysis" block of compute_summary.
DispatchSummary(sm) ==
    IF dispatches = <<>> THEN sm
    ELSE LET s1 == sm \o <<<<"dispatch_calls", Len(dispatches)>>,
                           <<"dispatch_types", DispatchTypes(Len(dispatches))>>>>
         IN  IF HasFrames(frame_count)
             THEN Append(s1, <<"dispatches_per_frame", Ratio(Len(dispatches), frame_count)>>)
             ELSE s1

RECURSIVE UniqueBuffers(_)
\* unique_buffers after the first n entries of results['buffers'].
UniqueBuffers(n) ==
    IF n = 0 THEN <<>>
    ELSE LET before == UniqueBuffers(n - 1)
         IN  IF buffers[n].label \notin DictKeys(before)
             THEN DictSet(before, buffers[n].label, buffers[n].size)
             ELSE before

\* The "Buffer analysis" block of compute_summary.
BufferSummary(sm) ==
    IF buffers = <<>> THEN sm
    ELSE LET unique_buffers == UniqueBuffers(Len(buffers))
             sizes == [n \in 1..Len(unique_buffers) |-> unique_buffers[n][2]]
         IN  sm \o <<<<"buffer_count", Len(unique_buffers)>>,
                      <<"total_buffer_memory", SeqSum(sizes)>>,
                      <<"buffers", unique_buffers>>>>

\* results['summary'] = compute_summary(results)
ComputeSummary ==
    /\ pc = "summary"
    /\ summary' = BufferSummary(DispatchSummary(DrawSummary(<<>>)))
    /\ pc' = "parsed"
    /\ UNCHANGED <<traceVars, mainVars, reportVars, content, draws, dispatches, buffers, pipelines, frame_count>>

NextRecording ==
    \/ ScanFrames
    \/ ScanDraws
    \/ ScanDrawIndirect
    \/ ScanDispatches
    \/ ScanBuffers
    \/ ScanBuffers2
    \/ ScanPipelines
    \/ ComputeSummary

SpecRecording == InitRecording /\ [][NextRecording]_vars

\* The createBuffer calls of the text that carry a label, in text order.
LabelledCalls ==
    LET IsLabelled(c) == c.kind = "createBuffer" /\ c.order /= "size_only"
    IN  SelectSeq(content, IsLabelled)

\* The size of the first call of the text with the label.
FirstSizeInText(label) ==
    LET q == LabelledCalls
        first == CHOOSE n \in 1..Len(q) :
                    /\ q[n].label = label
                    /\ \A m \in 1..(n - 1) : q[m].label /= label
    IN  q[first].size

LabelsInText == {LabelledCalls[n].label : n \in 1..Len(LabelledCalls)}

FirstSizes == [l \in LabelsInText |-> FirstSizeInText(l)]

\* C5: the summary's total buffer memory is the sum, over the labels of the
\* text, of the size of the first createBuffer call of the text with that
\* label, whichever field order the calls use.
C5_TotalIsFirstSizeInText ==
    (pc = "parsed" /\ LabelsInText /= {})
        => DictGet(summary, "total_buffer_memory", 0) = SumOver(FirstSizes, LabelsInText)

PerFrameKeys == {"draws_per_frame", "instances_per_frame", "dispatches_per_frame"}

FramesInText == {content[n].index : n \in {m \in 1..Len(content) : content[m].kind = "frame"}}

\* C8: once the frames are counted, frame_count is 0 when the text has no
\* frame marker and otherwise the largest frame index plus one; a summary
\* computed with frame_count 0 has none of the per-frame rate keys.
C8_FrameCountAndRates ==
    /\ pc /= "frames" =>
          /\ FramesInText = {} => frame_count = 0
          /\ FramesInText /= {} =>
                /\ frame_count - 1 \in FramesInText
                /\ \A f \in FramesInText : f < frame_count
    /\ (pc = "parsed" /\ frame_count = 0) => DictKeys(summary) \cap PerFrameKeys = {}

\* C8 witness: a text with a draw and a dispatch and no frame marker has
\* been summarised: the counts are there and no per-frame key is.
C8_Witness ==
    /\ pc = "parsed"
    /\ frame_count = 0
    /\ {"draw_calls", "total_instances", "dispatch_calls"} \subseteq DictKeys(summary)
    /\ DictKeys(summary) \cap PerFrameKeys = {}

(***************************************************************************)
(* main and print_report of analyze-webgpu-inspector.py: the recording is  *)
(* parsed and summarised, then the report is printed section by section.   *)
(* A printed line is kept as its fixed text and the values formatted into  *)
(* it, in order.                                                           *)
(***************************************************************************)
Line(text, args) == [text |-> text, args |-> args]

DigitChars == <<"0", "1", "2", "3", "4", "5", "6", "7", "8", "9">>

RECURSIVE Digits(_)
\* f"{n}" of a non-negative int: its decimal digits, most significant first
Digits(n) ==
    IF n < 10 THEN <<DigitChars[n + 1]>>
    ELSE Append(Digits(n \div 10), DigitChars[(n % 10) + 1])

\* key = f"vertices={d['vertex_count']}, instances={d['instance_count']}"
DrawKey(d) ==
    <<"vertices=">> \o Digits(d.vertex_count)
        \o <<", instances=">> \o Digits(d.instance_count)

RECURSIVE DrawConfigs(_)
\* The tally that assigns instead of adding: draw_configs[key] = 1
DrawConfigsAssign(dd) ==
    IF dd = <<>> THEN <<>>
    ELSE DictSet(DrawConfigs(SubSeq(dd, 1, Len(dd) - 1)), DrawKey(dd[Len(dd)]), 1)

\* draw_configs[key] += 1 over the direct draws dd
DrawConfigs(dd) ==
    IF dd = <<>> THEN <<>>
    ELSE DictAdd(DrawConfigs(SubSeq(dd, 1, Len(dd) - 1)), DrawKey(dd[Len(dd)]), 1)

\* sorted(d.items(), key=lambda x: -x[1]): a stable sort, largest value first.
InsertByValue(q, x) ==
    LET ahead == Cardinality({n \in 1..Len(q) : q[n][2] >= x[2]})
    IN  SubSeq(q, 1, ahead) \o <<x>> \o SubSeq(q, ahead + 1, Len(q))

RECURSIVE SortedByValue(_)
SortedByValue(d) ==
    IF d = <<>> THEN <<>>
    ELSE InsertByValue(SortedByValue(SubSeq(d, 1, Len(d) - 1)), d[Len(d)])

\* f"{a / b:.1f}" and f"{a / b:.2f}": the fraction times scale (10 or 100),
\* rounded to the nearest integer (no fraction of the recordings modelled
\* falls half-way between two of them).
Rounded(r, scale) == (2 * scale * r.num + r.den) \div (2 * r.den)

\* The draw and frame calls of the recordings that are reported: two vertex
\* counts and two instance counts.
ReportDrawCalls ==
    [kind : {"draw"}, vertex_count : {10, 20}, instance_count : {2, 5},
     first_vertex : {0}, first_instance : {0}]
ReportBufferCalls ==
    [kind : {"createBuffer"}, order : {"size_label"}, size : {16, 2048},
     label : {"x"}]
ReportCalls ==
    ReportDrawCalls \cup DrawIndirectCalls \cup FrameMarkers \cup DispatchCalls
        \cup ReportBufferCalls

InitInspector ==
    /\ pc = "frames"
    /\ content \in SeqsUpTo(ReportCalls, MaxCalls)
    /\ draws = <<>> /\ dispatches = <<>> /\ buffers = <<>> /\ pipelines = <<>>
    /\ frame_count = 0
    /\ summary = <<>>
    /\ nodes = <<>>
    /\ IdleStack /\ IdleInput /\ IdleAgg /\ IdleMain /\ IdleReport

inspectorFixed == <<nodes, stackVars, inputVars, i, aggVars, recVars, reportVars,
                    traces, trace_path, loaded, stderr>>

DirectDraws ==
    LET IsDirect(d) == d.type = "direct"
    IN  SelectSeq(draws, IsDirect)

IndirectDraws ==
    LET IsIndirect(d) == d.type = "indirect"
    IN  SelectSeq(draws, IsIndirect)

\* The banner and the OVERVIEW section.
PrintOverview ==
    /\ pc = "parsed"
    /\ stdout' = stdout
          \o <<Line("WebGPU Inspector Analysis", <<>>),
               Line("OVERVIEW", <<>>),
               Line("Frames captured", <<frame_count>>),
               Line("Draw calls", <<DictGet(summary, "draw_calls", 0)>>),
               Line("Dispatch calls", <<DictGet(summary, "dispatch_calls", 0)>>)>>
          \o (IF "draws_per_frame" \in DictKeys(summary)
              THEN <<Line("Draws/frame",
                          <<Rounded(DictGet(summary, "draws_per_frame", 0), 10)>>)>>
              ELSE <<>>)
          \o (IF "dispatches_per_frame" \in DictKeys(summary)
              THEN <<Line("Dispatches/frame",
                          <<Rounded(DictGet(summary, "dispatches_per_frame", 0), 10)>>)>>
              ELSE <<>>)
    /\ pc' = "draw_calls"
    /\ UNCHANGED inspectorFixed

\* The "Draw configurations" block: one line per key of draw_configs, then
\* the two totals of the summary.
ConfigLines ==
    LET sorted == SortedByValue(DrawConfigs(DirectDraws))
    IN  <<Line("Draw configurations", <<>>)>>
          \o [n \in 1..Len(sorted) |-> Line("x:", <<sorted[n][2], sorted[n][1]>>)]
          \o <<Line("Total instances drawn",
                    <<DictGet(summary, "total_instances", 0)>>),
               Line("Total vertices processed",
                    <<DictGet(summary, "total_vertices_drawn", 0)>>)>>

\* The DRAW CALLS section.
PrintDrawCalls ==
    /\ pc = "draw_calls"
    /\ stdout' = stdout
          \o <<Line("DRAW CALLS", <<>>)>>
          \o (IF draws /= <<>>
              THEN <<Line("Direct draws", <<Len(DirectDraws)>>),
                     Line("Indirect draws", <<Len(IndirectDraws)>>)>>
                     \o (IF DirectDraws /= <<>> THEN ConfigLines ELSE <<>>)
              ELSE <<>>)
    /\ pc' = "compute_dispatches"
    /\ UNCHANGED inspectorFixed

\* The COMPUTE DISPATCHES section: config.split('x') gives back x, y and z.
PrintDispatches ==
    /\ pc = "compute_dispatches"
    /\ LET sorted == SortedByValue(DictGet(summary, "dispatch_types", <<>>))
       IN  stdout' = stdout
              \o <<Line("COMPUTE DISPATCHES", <<>>)>>
              \o [n \in 1..Len(sorted) |->
                    LET config == sorted[n][1]
                        total_wg == config[1] * config[2] * config[3]
                        threads == total_wg * 256
                    IN  Line("x: dispatchWorkgroups",
                             <<sorted[n][2], config, total_wg, threads>>)]
    /\ pc' = "buffer_report"
    /\ UNCHANGED inspectorFixed

\* size_str of one buffer: MB, KB or B with its number
SizeStr(size) ==
    IF size >= 1024 * 1024 THEN <<Rounded(Ratio(size, 1024 * 1024), 100), "MB">>
    ELSE IF size >= 1024 THEN <<Rounded(Ratio(size, 1024), 10), "KB">>
    ELSE <<size, "B">>

\* The BUFFERS section.
PrintBuffers ==
    /\ pc = "buffer_report"
    /\ stdout' = stdout
          \o <<Line("BUFFERS", <<>>)>>
          \o (IF "buffers" \in DictKeys(summary)
              THEN LET total == DictGet(summary, "total_buffer_memory", 0)
                       sorted == SortedByValue(DictGet(summary, "buffers", <<>>))
                   IN  <<Line("Total GPU memory",
                              <<Rounded(Ratio(total, 1024 * 1024), 100)>>),
                         Line("Buffer breakdown", <<>>)>>
                         \o [n \in 1..Len(sorted) |->
                               Line("buffer", <<sorted[n][1]>> \o SizeStr(sorted[n][2]))]
              ELSE <<>>)
    /\ pc' = "insights"
    /\ UNCHANGED inspectorFixed

\* The INSIGHTS section.
PrintInsights ==
    /\ pc = "insights"
    /\ LET dd == DirectDraws
           dispatch_types == DictGet(summary, "dispatch_types", <<>>)
           same == /\ draws /= <<>>
                   /\ dd /= <<>>
                   /\ \A n \in 1..Len(dd) : dd[n].instance_count = dd[1].instance_count
           resets == /\ "dispatch_types" \in DictKeys(summary)
                     /\ <<1, 1, 1>> \in DictKeys(dispatch_types)
       IN  stdout' = stdout
              \o <<Line("INSIGHTS", <<>>)>>
              \o (IF same
                  THEN <<Line("All draws use instances", <<dd[1].instance_count>>),
                         Line("Consider: indirect draw", <<>>)>>
                  ELSE <<>>)
              \o (IF resets
                  THEN <<Line("single-workgroup dispatches",
                              <<DictGet(dispatch_types, <<1, 1, 1>>, 0)>>)>>
                  ELSE <<>>)
    /\ pc' = "reported"
    /\ UNCHANGED inspectorFixed

NextInspector ==
    \/ NextRecording
    \/ PrintOverview
    \/ PrintDrawCalls
    \/ PrintDispatches
    \/ PrintBuffers
    \/ PrintInsights

SpecInspector == InitInspector /\ [][NextInspector]_vars

\* The direct draw calls of the text, in text order, and their pairs.
DrawsInText ==
    LET IsDraw(c) == c.kind = "draw"
    IN  SelectSeq(content, IsDraw)

PairOf(c) == <<c.vertex_count, c.instance_count>>

PairsInText == {PairOf(DrawsInText[n]) : n \in 1..Len(DrawsInText)}

DrawsWith(p) == Cardinality({n \in 1..Len(DrawsInText) : PairOf(DrawsInText[n]) = p})

\* The text of the configuration of a pair, as the report words it.
ConfigText(p) ==
    <<"vertices=">> \o Digits(p[1]) \o <<", instances=">> \o Digits(p[2])

LinesOf(text) ==
    LET Is(l) == l.text = text
    IN  SelectSeq(stdout, Is)

InstancesInText == SeqSum([n \in 1..Len(DrawsInText) |-> DrawsInText[n].instance_count])

VerticesInText ==
    SeqSum([n \in 1..Len(DrawsInText) |->
        DrawsInText[n].vertex_count * DrawsInText[n].instance_count])

\* C11: once the draw section of a recording with a direct draw is printed,
\* there is exactly one configuration line per distinct (vertex count,
\* instance count) pair of the direct draws of the text, its count the number
\* of direct draws with that pair; the total of instances is the sum of the
\* instance counts and the total of vertices the sum of vertex count times
\* instance count over the direct draws, duplicates included and indirect
\* draws left out.
C11_DrawConfigurations ==
    (pc \in {"compute_dispatches", "buffer_report", "insights", "reported"}
        /\ DrawsInText /= <<>>)
    => LET configs == LinesOf("x:")
       IN  /\ Len(configs) = Cardinality(PairsInText)
           /\ \A p \in PairsInText :
                 \E n \in 1..Len(configs) :
                     configs[n].args = <<DrawsWith(p), ConfigText(p)>>
           /\ LinesOf("Total instances drawn")
                 = <<Line("Total instances drawn", <<InstancesInText>>)>>
           /\ LinesOf("Total vertices processed")
                 = <<Line("Total vertices processed", <<VerticesInText>>)>>
           /\ DictGet(summary, "total_instances", 0) = InstancesInText
           /\ DictGet(summary, "total_vertices_drawn", 0) = VerticesInText

\* C11 witness: .draw(10,5,0,0) twice and .draw(10,2,0,0) once, in any
\* order, have been reported: counts 2 and 1, 12 instances, 120 vertices.
C11_Witness ==
    /\ pc = "reported"
    /\ Len(DrawsInText) = 3
    /\ DrawsWith(<<10, 5>>) = 2
    /\ DrawsWith(<<10, 2>>) = 1
    /\ LET configs == LinesOf("x:")
       IN  /\ Len(configs) = 2
           /\ configs[1].args = <<2, ConfigText(<<10, 5>>)>>
           /\ configs[2].args = <<1, ConfigText(<<10, 2>>)>>
    /\ LinesOf("Total instances drawn") = <<Line("Total instances drawn", <<12>>)>>
    /\ LinesOf("Total vertices processed") = <<Line("Total vertices processed", <<120>>)>>

(***************************************************************************)
(* main of analyze-trace.py.  A trace file is modelled as what processing  *)
(* it does: "load_error" (load_trace raises), "extract_error"              *)
(* (extract_cpu_profile raises), "no_samples" (the sample list is empty),  *)
(* "report_error" (print_report raises) or "ok".                           *)
(***************************************************************************)
TraceKinds == {"load_error", "extract_error", "no_samples", "report_error", "ok"}

\* parser.add_argument('traces', nargs='+'): at least one file.
TraceLists == SeqsUpTo(TraceKinds, MaxTraces) \ {<<>>}

InitMain ==
    /\ pc = "load"
    /\ traces \in TraceLists
    /\ trace_path = 1
    /\ loaded = <<>>
    /\ stdout = <<>>
    /\ stderr = <<>>
    /\ nodes = <<>>
    /\ IdleStack /\ IdleInput /\ IdleAgg /\ IdleRec /\ IdleReport

\* for trace_path in args.traces: the next file, or the end of the loop.
NextFile ==
    /\ trace_path' = trace_path + 1
    /\ pc' = IF trace_path < Len(traces) THEN "load" ELSE "exited"

\* trace = load_trace(trace_path)
LoadTrace ==
    /\ pc = "load"
    /\ loaded' = Append(loaded, trace_path)
    /\ pc' = IF traces[trace_path] = "load_error" THEN "except" ELSE "extract"
    /\ UNCHANGED <<traceVars, recVars, reportVars, traces, trace_path, stdout, stderr>>

\* nodes, samples, time_deltas = extract_cpu_profile(trace)
ExtractProfile ==
    /\ pc = "extract"
    /\ pc' = IF traces[trace_path] = "extract_error" THEN "except" ELSE "check"
    /\ UNCHANGED <<traceVars, recVars, reportVars, mainVars>>

\* if not samples: print the warning and continue
WarnNoSamples ==
    /\ pc = "check"
    /\ traces[trace_path] = "no_samples"
    /\ stdout' = Append(stdout, <<"warning", trace_path>>)
    /\ NextFile
    /\ UNCHANGED <<traceVars, recVars, reportVars, traces, loaded, stderr>>

\* print_report(trace_path, nodes, samples, time_deltas) returns
PrintReport ==
    /\ pc = "check"
    /\ traces[trace_path] = "ok"
    /\ stdout' = Append(stdout, <<"report", trace_path>>)
    /\ NextFile
    /\ UNCHANGED <<traceVars, recVars, reportVars, traces, loaded, stderr>>

\* print_report raises
PrintReportRaises ==
    /\ pc = "check"
    /\ traces[trace_path] = "report_error"
    /\ pc' = "except"
    /\ UNCHANGED <<traceVars, recVars, reportVars, mainVars>>

\* The handler going on with the next file instead of raising.
AfterExceptContinue == IF trace_path < Len(traces) THEN "load" ELSE "exited"

\* raise: the exception leaves main.
AfterExcept == "raised"

\* except Exception as e: print(..., file=sys.stderr); raise
ExceptReraise ==
    /\ pc = "except"
    /\ stderr' = Append(stderr, <<"error", trace_path>>)
    /\ pc' = AfterExcept
    /\ trace_path' = IF AfterExcept = "raised" THEN trace_path ELSE trace_path + 1
    /\ UNCHANGED <<traceVars, recVars, reportVars, traces, loaded, stdout>>

NextMain ==
    \/ LoadTrace
    \/ ExtractProfile
    \/ WarnNoSamples
    \/ PrintReport
    \/ PrintReportRaises
    \/ ExceptReraise

SpecMain == InitMain /\ [][NextMain]_vars

Failing(n) == traces[n] \in {"load_error", "extract_error", "report_error"}

\* The position of the first failing file, or one past the last file.
FirstFailing ==
    IF \E n \in 1..Len(traces) : Failing(n)
    THEN CHOOSE n \in 1..Len(traces) : Failing(n) /\ \A m \in 1..(n - 1) : ~Failing(m)
    ELSE Len(traces) + 1

\* What a good file prints.
OutputOf(n) == <<(IF traces[n] = "no_samples" THEN "warning" ELSE "report"), n>>

\* C6: the files are loaded in argument order, each after the one before it
\* has printed its warning or report; a file without samples prints a warning
\* and the loop goes on; an error is logged once to the error stream and
\* raised, and no file after the first failing file is loaded or reported.
C6_InOrderAbortOnFirstError ==
    /\ loaded = [n \in 1..Len(loaded) |-> n]
    /\ stdout = [n \in 1..Len(stdout) |-> OutputOf(n)]
    /\ Len(loaded) <= FirstFailing /\ Len(stdout) < FirstFailing
    /\ Len(loaded) - 1 <= Len(stdout)
    /\ pc = "load" => Len(stdout) = Len(loaded)
    /\ stderr /= <<>> => stderr = <<<<"error", FirstFailing>>>> /\ pc = "raised"
    /\ pc = "raised" =>
          /\ stderr = <<<<"error", FirstFailing>>>>
          /\ Len(loaded) = FirstFailing
          /\ Len(stdout) = FirstFailing - 1
    /\ pc = "exited" =>
          /\ FirstFailing = Len(traces) + 1
          /\ Len(loaded) = Len(traces) /\ Len(stdout) = Len(traces)
    /\ pc \in {"raised", "exited"} \/ ENABLED NextMain

\* C6 witness: a file without samples was passed over with a warning, the
\* next file failed and ended the run, and a third file was never loaded.
C6_Witness ==
    /\ pc = "raised"
    /\ Len(traces) = 3
    /\ traces[1] = "no_samples"
    /\ Failing(2)
    /\ loaded = <<1, 2>>
    /\ stdout = <<<<"warning", 1>>>>
    /\ stderr = <<<<"error", 2>>>>

(***************************************************************************)
(* print_call_tree.  Function names are the numbers 1..NumFuncs; 0 stands *)
(* for the synthetic name "(root)" and IdleName for "(idle)", the          *)
(* synthetic names of the model.  The recursion of print_subtree           *)
(* is kept as the list of its active calls, each with the children it has  *)
(* still to visit.  A percentage t / total_time_us * 100 is compared in     *)
(* exact arithmetic.                                                       *)
(***************************************************************************)
max_depth == 8
TopFuncs == 30
TopChildren == 5

RootName == 0
TreeNames == 1..NumFuncs
IdleName == NumFuncs + 1
SyntheticNames == {RootName, IdleName}

\* The edge tables: a chain 1 -> 2 -> ... of some length, a fan of seven
\* callees under 1, and any of: a short and a long cycle, a self call, a
\* callee shared by two callers, the edge from "(root)".
ChainLengths == {1, 3, NumFuncs - 1}
ChainEdges(len) == {<<n, n + 1>> : n \in 1..len}
FanEdges == {<<1, c>> : c \in 2..(TopChildren + 3)}
ExtraEdges == {<<3, 1>>, <<NumFuncs, 1>>, <<2, 2>>, <<1, 3>>, <<RootName, 1>>}
EdgeSets ==
    {ChainEdges(len) \cup fan \cup extra :
        len \in ChainLengths, fan \in {{}, FanEdges}, extra \in SUBSET ExtraEdges}

RECURSIVE Ascending(_)
Ascending(S) ==
    IF S = {} THEN <<>>
    ELSE LET m == CHOOSE x \in S : \A y \in S : x <= y
         IN  <<m>> \o Ascending(S \ {m})

Reversed(q) == [n \in 1..Len(q) |-> q[Len(q) + 1 - n]]

\* The insertion order of a dict's keys: ascending or descending names.
KeyOrder(S, order) == IF order = "asc" THEN Ascending(S) ELSE Reversed(Ascending(S))

CallTreeOf(E, order) ==
    LET parents == KeyOrder({e[1] : e \in E}, order)
        kids(p) == KeyOrder({e[2] : e \in {f \in E : f[1] = p}}, order)
    IN  [n \in 1..Len(parents) |->
            <<parents[n], [m \in 1..Len(kids(parents[n])) |-> <<kids(parents[n])[m], 1>>]>>]

\* The total times: all equal, falling or rising with the name; one name may
\* have the time 0, which is below every threshold.
TimeShapes == {"equal", "falling", "rising"}
TinyNames == {-1, 2, 4}
TimeOfName(n, shape, tiny) ==
    IF n = tiny THEN 0
    ELSE IF shape = "equal" THEN 5
    ELSE IF shape = "falling" THEN NumFuncs + 1 - n
    ELSE n + 1

TotalTimeOf(shape, tiny, order) ==
    LET keys == KeyOrder(TreeNames \cup SyntheticNames, order)
    IN  [n \in 1..Len(keys) |-> <<keys[n], TimeOfName(keys[n], shape, tiny)>>]

Denominators == {0, 1000}

Take(q, n) == SubSeq(q, 1, IF Len(q) < n THEN Len(q) ELSE n)

TimeOf(name) == DictGet(total_time, name, 0)

\* sorted(..., key=lambda x: -total_time): a stable sort, largest time first.
InsertStable(q, x) ==
    LET ahead == Cardinality({n \in 1..Len(q) : TimeOf(q[n]) >= TimeOf(x)})
    IN  SubSeq(q, 1, ahead) \o <<x>> \o SubSeq(q, ahead + 1, Len(q))

RECURSIVE SortedByTime(_)
SortedByTime(q) ==
    IF q = <<>> THEN <<>>
    ELSE InsertStable(SortedByTime(SubSeq(q, 1, Len(q) - 1)), q[Len(q)])

\* sorted_funcs[:30]: the names of total_time but the synthetic ones.
IsReal(pair) == pair[1] \notin SyntheticNames
SortedFuncs ==
    LET kept == SelectSeq(total_time, IsReal)
    IN  Take(SortedByTime([n \in 1..Len(kept) |-> kept[n][1]]), TopFuncs)

\* sorted_children[:5] of a name
SortedChildren(name) ==
    LET children == DictGet(call_tree, name, <<>>)
    IN  Take(SortedByTime([n \in 1..Len(children) |-> children[n][1]]), TopChildren)

\* t / total_time_us * 100 >= 0.1, for a denominator that is not 0
AtLeastTenthPercent(t) == t * 1000 >= total_time_us

\* The early return without the printed test: if indent > max_depth: return
AlreadyDoneDepthOnly(name, indent, done) == indent > max_depth

\* if name in printed or indent > max_depth: return
AlreadyDone(name, indent, done) == name \in done \/ indent > max_depth

\* print_subtree(name, indent, printed) up to its loop over the children.
Call(name, indent) ==
    IF AlreadyDone(name, indent, printed)
    THEN [printed |-> printed, rows |-> rows, push |-> <<>>]
    ELSE LET total_pct_tiny ==
                 IF total_time_us = 0 THEN TRUE ELSE ~AtLeastTenthPercent(TimeOf(name))
         IN  IF total_pct_tiny /\ indent > 0
             THEN [printed |-> printed \cup {name}, rows |-> rows, push |-> <<>>]
             ELSE [printed |-> printed \cup {name},
                   rows |-> Append(rows, <<name, indent>>),
                   push |-> <<[name |-> name, indent |-> indent,
                               children |-> SortedChildren(name)]>>]

InitTree ==
    /\ pc = "tree"
    /\ \E E \in EdgeSets, order \in {"asc", "desc"}, shape \in TimeShapes, tiny \in TinyNames :
          /\ call_tree = CallTreeOf(E, order)
          /\ total_time = TotalTimeOf(shape, tiny, order)
    /\ total_time_us \in Denominators
    /\ self_samples = <<>> /\ self_time = <<>> /\ total_samples = <<>>
    /\ printed = {} /\ rows = <<>> /\ frames = <<>>
    /\ root = 1
    /\ categories = <<>> /\ item = 0
    /\ nodes = <<>>
    /\ IdleStack /\ IdleInput /\ IdleRec /\ IdleMain

treeFixed == <<nodes, stackVars, inputVars, i, aggVars, recVars, mainVars,
               total_time_us, categories, item>>

\* for name, _ in sorted_funcs[:30]: if name not in printed: print_subtree(name, 0, printed)
TreeRoot ==
    /\ pc = "tree" /\ frames = <<>>
    /\ root <= Len(SortedFuncs)
    /\ SortedFuncs[root] \notin printed
    /\ LET r == Call(SortedFuncs[root], 0)
       IN  printed' = r.printed /\ rows' = r.rows /\ frames' = r.push
    /\ root' = root + 1
    /\ UNCHANGED <<pc, treeFixed>>

TreeRootSkip ==
    /\ pc = "tree" /\ frames = <<>>
    /\ root <= Len(SortedFuncs)
    /\ SortedFuncs[root] \in printed
    /\ root' = root + 1
    /\ UNCHANGED <<pc, treeFixed, printed, rows, frames>>

Top == frames[Len(frames)]
Below == SubSeq(frames, 1, Len(frames) - 1)
TopAfterChild == [Top EXCEPT !.children = Tail(@)]

\* The next child passes the test of line 190: print_subtree(child, indent + 1, ...)
TreeChild ==
    /\ pc = "tree" /\ frames /= <<>> /\ Top.children /= <<>>
    /\ total_time_us /= 0
    /\ AtLeastTenthPercent(TimeOf(Head(Top.children)))
    /\ LET r == Call(Head(Top.children), Top.indent + 1)
       IN  /\ printed' = r.printed
           /\ rows' = r.rows
           /\ frames' = Append(Below, TopAfterChild) \o r.push
    /\ UNCHANGED <<pc, treeFixed, root>>

\* The next child fails the test of line 190.
TreeChildTiny ==
    /\ pc = "tree" /\ frames /= <<>> /\ Top.children /= <<>>
    /\ total_time_us /= 0
    /\ ~AtLeastTenthPercent(TimeOf(Head(Top.children)))
    /\ frames' = Append(Below, TopAfterChild)
    /\ UNCHANGED <<pc, treeFixed, root, printed, rows>>

\* The test of line 190 divides by a denominator of 0: ZeroDivisionError.
TreeChildRaises ==
    /\ pc = "tree" /\ frames /= <<>> /\ Top.children /= <<>>
    /\ total_time_us = 0
    /\ pc' = "raised"
    /\ UNCHANGED <<treeFixed, root, printed, rows, frames>>

\* The loop over the children is over: print_subtree returns.
TreeReturn ==
    /\ pc = "tree" /\ frames /= <<>> /\ Top.children = <<>>
    /\ frames' = Below
    /\ UNCHANGED <<pc, treeFixed, root, printed, rows>>

TreeDone ==
    /\ pc = "tree" /\ frames = <<>>
    /\ root > Len(SortedFuncs)
    /\ pc' = "printed"
    /\ UNCHANGED <<treeFixed, root, printed, rows, frames>>

NextTree ==
    \/ TreeRoot
    \/ TreeRootSkip
    \/ TreeChild
    \/ TreeChildTiny
    \/ TreeChildRaises
    \/ TreeReturn
    \/ TreeDone

SpecTree == InitTree /\ [][NextTree]_vars

\* C7: in a run of print_call_tree no function name is on two rows, no row
\* is deeper than max_depth, and a name is expanded (has an active call
\* visiting its children) only as the one row it was printed on.
C7_RenderedOnce ==
    /\ \A m, n \in 1..Len(rows) : rows[m][1] = rows[n][1] => m = n
    /\ \A n \in 1..Len(rows) : rows[n][2] \in 0..max_depth /\ rows[n][1] \in printed
    /\ \A n \in 1..Len(frames) :
          /\ \E m \in 1..Len(rows) : rows[m] = <<frames[n].name, frames[n].indent>>
          /\ \A m \in 1..Len(frames) : frames[m].name = frames[n].name => m = n

\* C7 witness: a table with a cycle and a callee shared by two callers has
\* been printed down to a row at the maximum depth.
C7_Witness ==
    /\ pc = "printed"
    /\ 1 \in DictKeys(DictGet(call_tree, NumFuncs, <<>>))
    /\ 3 \in DictKeys(DictGet(call_tree, 1, <<>>))
    /\ 3 \in DictKeys(DictGet(call_tree, 2, <<>>))
    /\ \E n \in 1..Len(rows) : rows[n][2] = max_depth
    /\ Len(rows) = NumFuncs

(***************************************************************************)
(* print_bottleneck_analysis, the loop that fills categories.  A function  *)
(* name is modelled as the set of the pieces it is made of: a substring    *)
(* test 'p' in name holds when p is one of the pieces, and name.lower()    *)
(* lower-cases every piece.  The arrows of the category titles are written *)
(* "->".                                                                   *)
(***************************************************************************)
Pieces ==
    {"new_from_slice", "NEW_FROM_SLICE", "write_buffer", "Write_Buffer",
     "sync_dirty", "createBindGroup", "createCommandEncoder", "wasm-to-js",
     "js-to-wasm", "submit", "wbg", "WBG", "naga", "render"}

LowerOf(piece) ==
    CASE piece = "NEW_FROM_SLICE" -> "new_from_slice"
      [] piece = "Write_Buffer" -> "write_buffer"
      [] piece = "createBindGroup" -> "createbindgroup"
      [] piece = "createCommandEncoder" -> "createcommandencoder"
      [] piece = "WBG" -> "wbg"
      [] OTHER -> piece

\* 'sub' in name
Contains(name, sub) == sub \in name

\* 'sub' in name.lower()
LowerContains(name, sub) == sub \in {LowerOf(piece) : piece \in name}

\* The names classified: every single piece, every two pieces whose patterns
\* are neighbours in the chain of tests, and some further mixtures.
BottleneckNames ==
    {{piece} : piece \in Pieces}
        \cup {{"new_from_slice", "write_buffer"}, {"write_buffer", "sync_dirty"},
              {"sync_dirty", "createBindGroup"},
              {"createBindGroup", "createCommandEncoder"},
              {"createCommandEncoder", "wasm-to-js"}, {"wasm-to-js", "js-to-wasm"},
              {"js-to-wasm", "submit", "wbg"}, {"submit", "wbg"}, {"submit", "WBG"},
              {"submit", "naga"}, {"submit", "wbg", "naga"},
              {"new_from_slice", "naga"}, {"NEW_FROM_SLICE", "Write_Buffer"},
              {"render", "naga"}}

BottleneckTimes == {1, 5}

NoCategory == ""

\* The if / elif chain of lines 245-262, the write_buffer test put first.
CategoryUploadFirst(name) ==
    IF LowerContains(name, "write_buffer") THEN "GPU Buffer Upload"
    ELSE IF Contains(name, "new_from_slice") THEN "WASM->JS Memory Copy"
    ELSE IF LowerContains(name, "sync_dirty") THEN "Dirty Buffer Sync"
    ELSE IF Contains(name, "createBindGroup") THEN "Bind Group Creation"
    ELSE IF Contains(name, "createCommandEncoder") THEN "Command Encoder Creation"
    ELSE IF LowerContains(name, "wasm-to-js") THEN "WASM->JS Call"
    ELSE IF LowerContains(name, "js-to-wasm") THEN "JS->WASM Call"
    ELSE IF LowerContains(name, "submit") /\ Contains(name, "wbg") THEN "GPU Submit"
    ELSE IF LowerContains(name, "naga") THEN "Shader Compilation (Naga)"
    ELSE NoCategory

\* The if / elif chain of lines 245-262.
Category(name) ==
    IF Contains(name, "new_from_slice") THEN "WASM->JS Memory Copy"
    ELSE IF LowerContains(name, "write_buffer") THEN "GPU Buffer Upload"
    ELSE IF LowerContains(name, "sync_dirty") THEN "Dirty Buffer Sync"
    ELSE IF Contains(name, "createBindGroup") THEN "Bind Group Creation"
    ELSE IF Contains(name, "createCommandEncoder") THEN "Command Encoder Creation"
    ELSE IF LowerContains(name, "wasm-to-js") THEN "WASM->JS Call"
    ELSE IF LowerContains(name, "js-to-wasm") THEN "JS->WASM Call"
    ELSE IF LowerContains(name, "submit") /\ Contains(name, "wbg") THEN "GPU Submit"
    ELSE IF LowerContains(name, "naga") THEN "Shader Compilation (Naga)"
    ELSE NoCategory

\* pct = (t / total_time_us * 100) if total_time_us else 0; pct < 0.5
PctBelowHalf(t) == IF total_time_us /= 0 THEN t * 200 < total_time_us ELSE TRUE

\* (name, t, pct, self_pct)
ItemOf(name, t) ==
    <<name, t, Ratio(t * 100, total_time_us),
      Ratio(DictGet(self_time, name, 0) * 100, total_time_us)>>

DistinctKeys(d) == \A m, n \in 1..Len(d) : d[m][1] = d[n][1] => m = n

InitBottleneck ==
    /\ pc = "classify"
    /\ total_time \in {d \in SeqsUpTo(BottleneckNames \X BottleneckTimes, MaxFuncs) :
                          DistinctKeys(d)}
    /\ total_time_us \in Denominators
    /\ self_samples = <<>> /\ self_time = <<>> /\ total_samples = <<>>
    /\ call_tree = <<>>
    /\ categories = <<>>
    /\ item = 0
    /\ printed = {} /\ rows = <<>> /\ frames = <<>> /\ root = 0
    /\ nodes = <<>>
    /\ IdleStack /\ IdleInput /\ IdleRec /\ IdleMain

bottleneckFixed == <<pc, nodes, stackVars, inputVars, i, aggVars, recVars, mainVars,
                     total_time_us, printed, rows, frames, root>>

\* if pct < 0.5: continue
BottleneckSkipTiny ==
    /\ pc = "classify" /\ item < Len(total_time)
    /\ PctBelowHalf(total_time[item + 1][2])
    /\ item' = item + 1
    /\ UNCHANGED <<bottleneckFixed, categories>>

\* One branch of the chain is taken: categories[...].append(...)
BottleneckPlace ==
    /\ pc = "classify" /\ item < Len(total_time)
    /\ ~PctBelowHalf(total_time[item + 1][2])
    /\ LET name == total_time[item + 1][1]
           t == total_time[item + 1][2]
       IN  /\ Category(name) /= NoCategory
           /\ categories' =
                 DictSet(categories, Category(name),
                         Append(DictGet(categories, Category(name), <<>>), ItemOf(name, t)))
    /\ item' = item + 1
    /\ UNCHANGED bottleneckFixed

\* No branch of the chain is taken.
BottleneckUnmatched ==
    /\ pc = "classify" /\ item < Len(total_time)
    /\ ~PctBelowHalf(total_time[item + 1][2])
    /\ Category(total_time[item + 1][1]) = NoCategory
    /\ item' = item + 1
    /\ UNCHANGED <<bottleneckFixed, categories>>

\* The loop over total_time.items() is over.
BottleneckDone ==
    /\ pc = "classify" /\ item = Len(total_time)
    /\ pc' = "classified"
    /\ UNCHANGED <<nodes, stackVars, inputVars, i, aggVars, recVars, mainVars, reportVars>>

NextBottleneck ==
    \/ BottleneckSkipTiny
    \/ BottleneckPlace
    \/ BottleneckUnmatched
    \/ BottleneckDone

SpecBottleneck == InitBottleneck /\ [][NextBottleneck]_vars

\* The patterns in the fixed order of the claim.
PatternOrder ==
    <<"WASM->JS Memory Copy", "GPU Buffer Upload", "Dirty Buffer Sync",
      "Bind Group Creation", "Command Encoder Creation", "WASM->JS Call",
      "JS->WASM Call", "GPU Submit", "Shader Compilation (Naga)">>

MatchesPattern(name, k) ==
    CASE k = 1 -> "new_from_slice" \in name
      [] k = 2 -> \E piece \in name : LowerOf(piece) = "write_buffer"
      [] k = 3 -> \E piece \in name : LowerOf(piece) = "sync_dirty"
      [] k = 4 -> "createBindGroup" \in name
      [] k = 5 -> "createCommandEncoder" \in name
      [] k = 6 -> \E piece \in name : LowerOf(piece) = "wasm-to-js"
      [] k = 7 -> \E piece \in name : LowerOf(piece) = "js-to-wasm"
      [] k = 8 -> (\E piece \in name : LowerOf(piece) = "submit") /\ "wbg" \in name
      [] k = 9 -> \E piece \in name : LowerOf(piece) = "naga"

MatchedPatterns(name) == {k \in 1..Len(PatternOrder) : MatchesPattern(name, k)}

\* The places of a function in categories, each <<category, position>>.
PlacesOf(name) ==
    {<<c, m>> \in DictKeys(categories) \X (1..MaxFuncs + 1) :
        /\ m <= Len(DictGet(categories, c, <<>>))
        /\ DictGet(categories, c, <<>>)[m][1] = name}

ShareBelowHalfPercent(t) == total_time_us = 0 \/ 200 * t < total_time_us

\* C9: every function of the total-time map that the loop has passed is in
\* at most one category: in none when its share of the denominator is below
\* 0.5% (a denominator of 0 gives every function the share 0) or when it
\* matches no pattern, and otherwise once in the category of the first
\* pattern, in the fixed order, that it matches.
C9_FirstPatternWins ==
    \A n \in 1..Len(total_time) :
        LET name == total_time[n][1]
            hits == MatchedPatterns(name)
        IN  IF n > item \/ ShareBelowHalfPercent(total_time[n][2]) \/ hits = {}
            THEN PlacesOf(name) = {}
            ELSE /\ Cardinality(PlacesOf(name)) = 1
                 /\ \A p \in PlacesOf(name) :
                       /\ p[1] = PatternOrder[CHOOSE k \in hits : \A h \in hits : k <= h]
                       /\ DictGet(categories, p[1], <<>>)[p[2]][2] = total_time[n][2]

\* C9 witness: a function matching the first two patterns sits in the first
\* category alone, and a function below 0.5% that matches a pattern in none.
C9_Witness ==
    /\ pc = "classified"
    /\ Len(total_time) = 2
    /\ total_time[1][1] = {"new_from_slice", "write_buffer"}
    /\ total_time[2] = <<{"naga"}, 1>>
    /\ DictKeys(categories) = {"WASM->JS Memory Copy"}

(***************************************************************************)
(* print_report of analyze-trace.py: analyze_samples, the header, then the *)
(* four reporters.  Function names are numbers as in print_call_tree: 0 is *)
(* "(root)", IdleName is "(idle)", 1 and 2 are functions of the program,   *)
(* which match no bottleneck pattern.  The variable total_time_us is the   *)
(* parameter total_time_us of the reporter that is running; the local      *)
(* total_time_us and active_time_us of print_report are TotalTimeUs and    *)
(* ActiveTimeUs.  A percentage is kept as the fraction it is computed      *)
(* from.                                                                   *)
(***************************************************************************)
TopFlat == 40

\* The node tables: "(root)" with "(idle)" and two functions under it, the
\* second function called by the first (chain) or by "(root)" (flat).
ReportTables ==
    {[id \in 1..4 |->
        [functionName |-> <<RootName, 1, 2, IdleName>>[id],
         parent |-> <<None, 1, up, 1>>[id]]] : up \in {1, 2}}

ReportSampleIds == 0..4
ReportDeltas == {0, 5}

InitPrintReport ==
    /\ pc = "samples"
    /\ nodes \in ReportTables
    /\ samples \in SeqsUpTo(ReportSampleIds, MaxSamples) \ {<<>>}
    /\ time_deltas \in SeqsUpTo(ReportDeltas, MaxSamples)
    /\ i = 0
    /\ IdleAgg
    /\ IdleStack /\ IdleRec /\ IdleMain /\ IdleReport

\* total_time_us = sum(time_deltas) if time_deltas else 0
TotalTimeUs == IF time_deltas /= <<>> THEN SeqSum(time_deltas) ELSE 0

\* idle_time_us: the self time of the idle names
IdleTimeUs ==
    LET idle_names == Ascending(SyntheticNames)
    IN  SeqSum([n \in 1..Len(idle_names) |-> DictGet(self_time, idle_names[n], 0)])

\* active_time_us = total_time_us - idle_time_us
ActiveTimeUs == TotalTimeUs - IdleTimeUs

\* (t / total_time_us * 100) if total_time_us else 0
GuardedPct(t, den) == IF den /= 0 THEN Ratio(t * 100, den) ELSE Ratio(0, 1)

reportFixed == <<nodes, stackVars, inputVars, i, aggVars, recVars,
                 traces, trace_path, loaded, stderr>>

\* The header, with a total time that is not 0.
ReportHeader ==
    /\ pc = "analyzed"
    /\ TotalTimeUs /= 0
    /\ stdout' = stdout
          \o <<Line("CPU Profile Analysis", <<>>),
               Line("Total samples", <<Len(samples)>>),
               Line("Total time", <<TotalTimeUs>>),
               Line("Active time", <<ActiveTimeUs, Ratio(ActiveTimeUs * 100, TotalTimeUs)>>),
               Line("Sample interval",
                    <<TotalTimeUs \div (IF Len(samples) > 1 THEN Len(samples) ELSE 1)>>)>>
    /\ pc' = "bottleneck"
    /\ UNCHANGED <<reportFixed, reportVars>>

\* The header, with a total time of 0: active_time_us/total_time_us of line
\* 311 raises ZeroDivisionError.
ReportHeaderRaises ==
    /\ pc = "analyzed"
    /\ TotalTimeUs = 0
    /\ stdout' = stdout
          \o <<Line("CPU Profile Analysis", <<>>),
               Line("Total samples", <<Len(samples)>>),
               Line("Total time", <<TotalTimeUs>>)>>
    /\ pc' = "raised"
    /\ UNCHANGED <<reportFixed, reportVars>>

\* print_bottleneck_analysis(analysis, active_time_us): both percentages of
\* every function are guarded, and no name of the model is put in a
\* category.  print_call_tree is called next, with the same denominator.
ReportBottleneck ==
    /\ pc = "bottleneck"
    /\ total_time_us' = ActiveTimeUs
    /\ stdout' = stdout
          \o <<Line("BOTTLENECK ANALYSIS",
                    [n \in 1..Len(total_time) |->
                        <<GuardedPct(total_time[n][2], ActiveTimeUs),
                          GuardedPct(DictGet(self_time, total_time[n][1], 0),
                                     ActiveTimeUs)>>]),
               Line("No specific bottleneck patterns detected.", <<>>)>>
    /\ printed' = {} /\ rows' = <<>> /\ frames' = <<>> /\ root' = 1
    /\ pc' = "tree"
    /\ UNCHANGED <<reportFixed, categories, item>>

\* print_flat_profile(analysis, total_sample_count, active_time_us)
IsFlatName(pair) == pair[1] \notin SyntheticNames
FlatFuncs == Take(SortedByValue(SelectSeq(self_time, IsFlatName)), TopFlat)

ReportFlat ==
    /\ pc = "printed"
    /\ stdout' = stdout
          \o <<Line("FLAT PROFILE", <<>>)>>
          \o [n \in 1..Len(FlatFuncs) |->
                Line("flat", <<FlatFuncs[n][1],
                               GuardedPct(FlatFuncs[n][2], total_time_us),
                               GuardedPct(TimeOf(FlatFuncs[n][1]), total_time_us)>>)]
    /\ pc' = "context"
    /\ UNCHANGED <<reportFixed, reportVars>>

\* print_context(analysis, total_sample_count, total_time_us): of the names
\* it lists the model has "(idle)".
ContextNames == <<IdleName>>

ReportContext ==
    /\ pc = "context"
    /\ total_time_us' = TotalTimeUs
    /\ LET IsTimed(name) == name \in DictKeys(self_time)
           shown == SelectSeq(ContextNames, IsTimed)
       IN  stdout' = stdout
              \o <<Line("CONTEXT", <<>>)>>
              \o [n \in 1..Len(shown) |->
                    Line("context", <<shown[n],
                                      GuardedPct(DictGet(self_time, shown[n], 0),
                                                 TotalTimeUs)>>)]
    /\ pc' = "report_done"
    /\ UNCHANGED <<reportFixed, printed, rows, frames, root, categories, item>>

NextPrintReport ==
    \/ NextAnalyze
    \/ ReportHeader
    \/ ReportHeaderRaises
    \/ ReportBottleneck
    \/ NextTree
    \/ ReportFlat
    \/ ReportContext

SpecPrintReport == InitPrintReport /\ [][NextPrintReport]_vars

\* C12: print_report, given at least one sample, never ends in a
\* ZeroDivisionError, whether the total time or the active time is 0.
C12_NoZeroDivision ==
    Len(samples) >= 1 => pc /= "raised"
====
